---- MODULE Spec2Model ----
(***************************************************************************)
(* NEAT evolution engine of the Creatures simulation (src/simulation.py,   *)
(* src/dna.py): innovation ledger, genome comparison, genetic distance,    *)
(* speciation, crossover and the birth/death cycle.                        *)
(*                                                                         *)
(* Six specifications share the variables:                                 *)
(*   Spec        the population: construction, fitness updates, deaths     *)
(*               and the births that replace them;                         *)
(*   SpecCompare the static genome functions (compare_genomes,             *)
(*               genetic_distance, crossover) applied to bounded genomes;  *)
(*   SpecSpecies update_species at construction, over base genomes with    *)
(*               weights drawn at random;                                  *)
(*   SpecGeneration  new_generation on a catalogued population: culling,   *)
(*               parent choice and the births of every slot;               *)
(*   SpecNode    the input nodes of a network (src/node.py): set_input,    *)
(*               reset_node and get_output in any order;                   *)
(*   SpecBirth   one new_birth on two bounded parents, with the Connection *)
(*               objects a crossover child shares with them.               *)
(*                                                                         *)
(* mutations.py, connection.py, creature.py, functions.py and              *)
(* neat_parameters.py are not part of the sources at hand; what the model  *)
(* needs of them follows the written specification (sections 3 and 4.3).   *)
(* Real-valued weights are modelled by the integers 0..MaxWeight and the   *)
(* genetic distance by an exact fraction num/den.                          *)
(***************************************************************************)
EXTENDS Integers, Sequences, FiniteSets, TLC

(* ------------------------------ parameters ----------------------------- *)

\* neat_parameters.py (values scaled down for model checking)
CREATURE_INPUTS == 2
CREATURE_OUTPUTS == 1
POPULATION_SIZE == 2
EXCESS_CONSTANT == 2
DISJOINT_CONSTANT == 2
DELTA_WEIGHT_CONSTANT == 1
DISTANCE_THRESHOLD == 1
BASE_DNA == "CONNECTED"

\* bounds of the model
\* Spec: weights drawn at random, fitness levels, creatures ever born,
\* innovation numbers handed out
MaxWeight == 0
MaxFitness == 1
MaxCreatures == 4
MaxConnectionCount == 8
\* SpecCompare, SpecSpecies: weights and innovation numbers of the genomes
\* drawn, creatures constructed
MaxTestWeight == 1
MaxTestNumber == 2
SpeciesPopulation == 3

\* the creatures of the population new_generation works on
GenerationPopulation == 4

\* SpecNode: the values an input node is fed
MaxInput == 2

Weights == 0..MaxWeight
TestWeights == 0..MaxTestWeight

\* Python's None, for integer-valued slots
None == -1

(* ------------------------------- helpers ------------------------------- *)

RECURSIVE SetMax(_)
SetMax(S) ==
    LET x == CHOOSE y \in S : TRUE
    IN  IF S = {x} THEN x
        ELSE LET m == SetMax(S \ {x}) IN IF x > m THEN x ELSE m

Min2(a, b) == IF a < b THEN a ELSE b
Max2(a, b) == IF a > b THEN a ELSE b

RECURSIVE SumOver(_, _)
SumOver(f, S) ==
    IF S = {} THEN 0
    ELSE LET x == CHOOSE y \in S : TRUE IN f[x] + SumOver(f, S \ {x})

Abs(x) == IF x < 0 THEN -x ELSE x

SeqToSet(s) == {s[i] : i \in 1..Len(s)}

\* a Python truth test of an int-or-None value
Truthy(x) == x # None /\ x # 0

\* Python's `x or y` on int-or-None values
PyOr(x, y) == IF Truthy(x) THEN x ELSE y

(* -------------------------------- genome ------------------------------- *)

\* A Connection: innovation number, endpoints, weight, enabled flag.
Connection(number, src, dst, weight) ==
    [number |-> number, src_number |-> src, dst_number |-> dst,
     weight |-> weight, enabled |-> TRUE]

\* node ids of a base genome: 1..CREATURE_INPUTS inputs, then the outputs
InputIds == 1..CREATURE_INPUTS
OutputIds == (CREATURE_INPUTS + 1)..(CREATURE_INPUTS + CREATURE_OUTPUTS)
BaseNodes == InputIds \cup OutputIds

\* the k-th (from 0) input/output pair in the nested-loop order
PairSrc(k) == (k \div CREATURE_OUTPUTS) + 1
PairDst(k) == CREATURE_INPUTS + (k % CREATURE_OUTPUTS) + 1
NumPairs == CREATURE_INPUTS * CREATURE_OUTPUTS

\* Dna.connect_nodes: full input->output connection, numbered from 0
connect_nodes(w) ==
    [k \in 0..(NumPairs - 1) |-> Connection(k, PairSrc(k), PairDst(k), w[k])]

EmptyConnections == [k \in {} |-> Connection(0, 0, 0, 0)]

Dna(nodes, connections) == [nodes |-> nodes, connections |-> connections]

Creature(dna, fitness) == [dna |-> dna, fitness |-> fitness]

(* --------------------------- compare_genomes --------------------------- *)
\* Operators named ...Of take the values their caller computed once (the
\* locals of the source function) as parameters.

\* the aligned column of one genome at innovation number num
CompareEntry(connections, num) ==
    IF num \in DOMAIN connections THEN connections[num].number ELSE None

\* faulty variant of compare_cutoff: the first genome's maximum
compare_cutoff_first(a_max, b_max) == a_max

compare_cutoff(a_max, b_max) == Min2(a_max, b_max)

\* the class the loop body gives one aligned pair; ab is `a_num or b_num`
GeneClassOf(a_num, b_num, ab, cutoff) ==
    IF a_num = b_num /\ Truthy(a_num) THEN "matching"
    ELSE IF Truthy(ab) /\ ab < cutoff THEN "disjoint"
    ELSE IF Truthy(ab) THEN "excess"
    ELSE "none"

GeneClass(a_num, b_num, cutoff) == GeneClassOf(a_num, b_num, PyOr(a_num, b_num), cutoff)

\* what the loop appends for one aligned pair: the class and the number
AlignedGene(a_num, b_num, cutoff) ==
    [class |-> GeneClass(a_num, b_num, cutoff),
     number |-> IF a_num = b_num THEN a_num ELSE PyOr(a_num, b_num)]

\* the numbers of class c, in the order of the loop
GenesOfClass(aligned, c) ==
    LET sel == SelectSeq(aligned, LAMBDA g : g.class = c)
    IN  [i \in 1..Len(sel) |-> sel[i].number]

CompareResultOf(aligned, max_number) ==
    [error |-> "", matching |-> GenesOfClass(aligned, "matching"),
     disjoint |-> GenesOfClass(aligned, "disjoint"),
     excess |-> GenesOfClass(aligned, "excess"), max_number |-> max_number]

CompareOf(a_connections, b_connections, cutoff, max_number) ==
    CompareResultOf(
        [i \in 1..(max_number + 1) |->
            AlignedGene(CompareEntry(a_connections, i - 1),
                        CompareEntry(b_connections, i - 1), cutoff)],
        max_number)

CompareMaxOf(a_connections, b_connections, a_max, b_max) ==
    CompareOf(a_connections, b_connections, compare_cutoff(a_max, b_max),
              Max2(a_max, b_max))

CompareError(e) ==
    [error |-> e, matching |-> <<>>, disjoint |-> <<>>, excess |-> <<>>,
     max_number |-> None]

\* faulty variant of CompareConnections: max() with a default of 0
CompareConnectionsDefault(a_connections, b_connections) ==
    CompareMaxOf(a_connections, b_connections,
                 IF DOMAIN a_connections = {} THEN 0 ELSE SetMax(DOMAIN a_connections),
                 IF DOMAIN b_connections = {} THEN 0 ELSE SetMax(DOMAIN b_connections))

\* max() of an empty key view raises ValueError
CompareConnections(a_connections, b_connections) ==
    IF DOMAIN a_connections = {} \/ DOMAIN b_connections = {}
    THEN CompareError("ValueError")
    ELSE CompareMaxOf(a_connections, b_connections,
                      SetMax(DOMAIN a_connections), SetMax(DOMAIN b_connections))

compare_genomes(creature_a, creature_b) ==
    CompareConnections(creature_a.dna.connections, creature_b.dna.connections)

(* --------------------------- genetic_distance -------------------------- *)

\* kind: "value" (num/den), "nan", or the exception raised
Distance(kind, num, den) == [kind |-> kind, num |-> num, den |-> den]

\* the sum of |weight_a - weight_b| over the genes of m
DeltaWeights(a_connections, b_connections, m) ==
    SumOver([n \in m |-> Abs(a_connections[n].weight - b_connections[n].weight)], m)

\* numpy.average of an empty list is nan; the divisions by max_number raise
\* ZeroDivisionError when it is 0
DistanceValueOf(cmp, m, delta_sum) ==
    IF cmp.max_number = 0 THEN Distance("ZeroDivisionError", 0, 1)
    ELSE IF m = {} THEN Distance("nan", 0, 1)
    ELSE Distance("value",
             EXCESS_CONSTANT * Len(cmp.excess) * Cardinality(m)
             + DISJOINT_CONSTANT * Len(cmp.disjoint) * Cardinality(m)
             + DELTA_WEIGHT_CONSTANT * delta_sum * cmp.max_number,
             cmp.max_number * Cardinality(m))

DistanceOf(cmp, a_connections, b_connections) ==
    IF cmp.error # "" THEN Distance(cmp.error, 0, 1)
    ELSE DistanceValueOf(cmp, SeqToSet(cmp.matching),
             DeltaWeights(a_connections, b_connections, SeqToSet(cmp.matching)))

genetic_distance(creature_a, creature_b) ==
    DistanceOf(compare_genomes(creature_a, creature_b),
               creature_a.dna.connections, creature_b.dna.connections)

\* `distance < DISTANCE_THRESHOLD`; a comparison with nan is False
BelowThreshold(d) == d.kind = "value" /\ d.num < DISTANCE_THRESHOLD * d.den

(* ------------------------------- crossover ----------------------------- *)

\* fit_parent: "a", "b", or "none" when the fitness levels are equal
FitParent(parent_a, parent_b) ==
    IF parent_a.fitness > parent_b.fitness THEN "a"
    ELSE IF parent_a.fitness < parent_b.fitness THEN "b"
    ELSE "none"

\* the parents a non-matching gene may be inherited from ("skip": from none)
NonMatchingSources(number, fit_parent, a_connections, b_connections) ==
    IF fit_parent = "a"
    THEN IF number \in DOMAIN a_connections THEN {"a"} ELSE {"skip"}
    ELSE IF fit_parent = "b"
    THEN IF number \in DOMAIN b_connections THEN {"b"} ELSE {"skip"}
    ELSE (IF number \in DOMAIN a_connections THEN {"a"} ELSE {})
         \cup (IF number \in DOMAIN b_connections THEN {"b"} ELSE {"skip"})

\* every child_gene_sources the random draws may produce
SourcesOf(matching, non_matching, fit_parent, a_connections, b_connections) ==
    {f \in [matching \cup non_matching -> {"a", "b", "skip"}] :
        \A n \in DOMAIN f :
            f[n] \in IF n \in matching /\ n \notin non_matching THEN {"a", "b"}
                     ELSE NonMatchingSources(n, fit_parent, a_connections, b_connections)}

ChildGeneSourcesOf(cmp, parent_a, parent_b) ==
    SourcesOf(SeqToSet(cmp.matching),
              SeqToSet(cmp.disjoint) \cup SeqToSet(cmp.excess),
              FitParent(parent_a, parent_b),
              parent_a.dna.connections, parent_b.dna.connections)

\* faulty variant of ChildDnaOf: only the source nodes are collected
ChildDnaOfSources(child_connections) ==
    Dna({child_connections[n].src_number : n \in DOMAIN child_connections},
        child_connections)

\* the child Dna built from the inherited connections
ChildDnaOf(child_connections) ==
    Dna({child_connections[n].src_number : n \in DOMAIN child_connections}
        \cup {child_connections[n].dst_number : n \in DOMAIN child_connections},
        child_connections)

ChildDna(parent_a, parent_b, sources) ==
    ChildDnaOf([n \in {k \in DOMAIN sources : sources[k] # "skip"} |->
                   IF sources[n] = "a" THEN parent_a.dna.connections[n]
                   ELSE parent_b.dna.connections[n]])

\* error: the exception compare_genomes raised, else "" and the possible children
CrossoverOf(cmp, parent_a, parent_b) ==
    IF cmp.error # "" THEN [error |-> cmp.error, children |-> {}]
    ELSE [error |-> "",
          children |-> {ChildDna(parent_a, parent_b, s) :
                            s \in ChildGeneSourcesOf(cmp, parent_a, parent_b)}]

crossover(parent_a, parent_b) ==
    CrossoverOf(compare_genomes(parent_a, parent_b), parent_a, parent_b)

(* ----------------------- innovations and the ledger -------------------- *)

\* Mutation objects are records of one shape.  The weight a new Connection
\* gets is drawn when the mutation is applied, so that a ledger entry holds
\* the identity and the configuration of an innovation only.
\* A WeightMutation gives connection `number` the weight `weight`.
WeightMutation(number, weight) ==
    [kind |-> "WeightMutation", src_number |-> None, dst_number |-> None,
     connection |-> number, weight |-> weight,
     number |-> None, node_number |-> None, dst_innovation |-> None]

\* A ConnectionMutation proposes a connection src -> dst; number is its
\* innovation number (None until configured).
ConnectionMutation(number, src, dst) ==
    [kind |-> "ConnectionMutation", src_number |-> src, dst_number |-> dst,
     connection |-> None, weight |-> None,
     number |-> number, node_number |-> None, dst_innovation |-> None]

\* A NodeMutation splits `connection` (an innovation number) joining src -> dst:
\* node_number is the new node, number the innovation of src -> node and
\* dst_innovation that of node -> dst (None until configured).
NodeMutation(connection) ==
    [kind |-> "NodeMutation", src_number |-> connection.src_number,
     dst_number |-> connection.dst_number, connection |-> connection.number,
     weight |-> None,
     number |-> None, node_number |-> None, dst_innovation |-> None]

\* the identity key of an innovation
unique(m) ==
    IF m.kind = "ConnectionMutation"
    THEN <<m.kind, m.src_number, m.dst_number>>
    ELSE <<m.kind, m.connection, m.connection>>

configurations(m) == <<m.number, m.node_number, m.dst_innovation>>

configure(m, c) ==
    [m EXCEPT !.number = c[1], !.node_number = c[2], !.dst_innovation = c[3]]

\* mints the numbers of a new innovation from the counters
calc_configurations(m, connection_count, node_count) ==
    IF m.kind = "ConnectionMutation"
    THEN [mutation |-> configure(m, <<connection_count, None, None>>),
          connection_count |-> connection_count + 1, node_count |-> node_count]
    ELSE [mutation |-> configure(m, <<connection_count, node_count, connection_count + 1>>),
          connection_count |-> connection_count + 2, node_count |-> node_count + 1]

\* the first entry of the history with the innovation's key (0: none)
FirstIndex(hits) == IF hits = {} THEN 0 ELSE CHOOSE i \in hits : \A j \in hits : i <= j

\* faulty variant of FindPast: only connection innovations are looked up
FindPastConnection(innovation, history) ==
    FirstIndex({i \in 1..Len(history) :
                   /\ innovation.kind = "ConnectionMutation"
                   /\ unique(history[i]) = unique(innovation)})

FindPast(innovation, history) ==
    FirstIndex({i \in 1..Len(history) : unique(history[i]) = unique(innovation)})

\* the ledger state: history and the two counters
LedgerOf(history, cc, nc) ==
    [history |-> history, connection_count |-> cc, node_count |-> nc]

\* faulty variant of MintOf: the entry is appended, the counters are not
\* advanced
MintOfKeepCounters(c, led) ==
    [mutation |-> c.mutation, found |-> FALSE,
     led |-> LedgerOf(Append(led.history, c.mutation), led.connection_count,
                      led.node_count)]

\* the else branch of the loop: c is the result of calc_configurations
MintOf(c, led) ==
    [mutation |-> c.mutation, found |-> FALSE,
     led |-> LedgerOf(Append(led.history, c.mutation), c.connection_count, c.node_count)]

\* faulty variant of ConfigureOf: the numbers are minted even when the key
\* was found
ConfigureOfMintAlways(innovation, led, i) ==
    MintOf(calc_configurations(innovation, led.connection_count, led.node_count), led)

\* one pass of the loop of generate_mutations, i being the matching past entry
ConfigureOf(innovation, led, i) ==
    IF i # 0
    THEN [mutation |-> configure(innovation, configurations(led.history[i])),
          found |-> TRUE, led |-> led]
    ELSE MintOf(calc_configurations(innovation, led.connection_count, led.node_count), led)

\* faulty variant of ConfigureInnovation: a found key is configured with the
\* numbers of the newest entry instead of the matching one
ConfigureInnovationNewest(innovation, led) ==
    ConfigureOf(innovation, led,
                IF FindPast(innovation, led.history) # 0 THEN Len(led.history) ELSE 0)

\* one pass of the loop of generate_mutations over an innovation: the
\* configured innovation and the ledger state after it
ConfigureInnovation(innovation, led) ==
    ConfigureOf(innovation, led, FindPast(innovation, led.history))

IsInnovation(m) == m.kind \in {"ConnectionMutation", "NodeMutation"}

\* the record of one pass: the proposal, the outcome r, the ledger before
StepOf(proposal, r, led) ==
    [proposal |-> proposal, found |-> r.found, mutation |-> r.mutation,
     before |-> led, after |-> r.led]

\* the loop of generate_mutations over the list `mutations`, from position i:
\* [mutations (configured), led, steps], steps recording each pass
RECURSIVE ConfigureAll(_, _, _, _)
RECURSIVE ConfigureNext(_, _, _, _, _)
ConfigureNext(mutations, i, led, steps, r) ==
    ConfigureAll([mutations EXCEPT ![i] = r.mutation], i + 1, r.led,
                 Append(steps, StepOf(mutations[i], r, led)))

ConfigureAll(mutations, i, led, steps) ==
    IF i > Len(mutations)
    THEN [mutations |-> mutations, led |-> led, steps |-> steps]
    ELSE IF ~IsInnovation(mutations[i])
    THEN ConfigureAll(mutations, i + 1, led, steps)
    ELSE ConfigureNext(mutations, i, led, steps, ConfigureInnovation(mutations[i], led))

(* ------------------------- mutation of a genome ------------------------ *)

\* the nodes reachable from `frontier` along the connections of dna
RECURSIVE Reachable(_, _)
Reachable(dna, frontier) ==
    LET next == frontier \cup
                {dna.connections[n].dst_number :
                    n \in {k \in DOMAIN dna.connections :
                              dna.connections[k].src_number \in frontier}}
    IN  IF next = frontier THEN frontier ELSE Reachable(dna, next)

\* Dna.available_connections: the (src, dst) pairs not yet connected whose
\* connection would not close a cycle
available_connections(dna) ==
    {p \in (dna.nodes \ OutputIds) \X (dna.nodes \ InputIds) :
        /\ p[1] # p[2]
        /\ \A n \in DOMAIN dna.connections :
              ~(dna.connections[n].src_number = p[1]
                /\ dna.connections[n].dst_number = p[2])
        /\ p[1] \notin Reachable(dna, {p[2]})}

weight_mutation(creature) ==
    {WeightMutation(n, w) : n \in DOMAIN creature.dna.connections, w \in Weights}

connection_mutation(creature) ==
    {ConnectionMutation(None, p[1], p[2]) : p \in available_connections(creature.dna)}

\* the connection to split is drawn among all connections of the genome
NodeMutationCandidates(dna) == DOMAIN dna.connections

node_mutation(creature) ==
    {NodeMutation(creature.dna.connections[n]) : n \in NodeMutationCandidates(creature.dna)}

\* Simulation.mutate: the lists of mutations the random draws may produce
\* (a bias mutation touches no modelled state and is left out)
mutate(creature) ==
    LET opt(S) == {<<>>} \cup {<<m>> : m \in S}
    IN  {w \o c \o n : w \in opt(weight_mutation(creature)),
                       c \in opt(connection_mutation(creature)),
                       n \in opt(node_mutation(creature))}

PutConnection(connections, c) ==
    [n \in DOMAIN connections \cup {c.number} |->
        IF n = c.number THEN c ELSE connections[n]]

\* a NodeMutation applied: the split connection is disabled, the node added,
\* src -> node gets weight 1 and node -> dst the weight of the split connection
ApplyNodeMutation(dna, m, old_weight) ==
    Dna(dna.nodes \cup {m.node_number},
        PutConnection(
            PutConnection([dna.connections EXCEPT ![m.connection].enabled = FALSE],
                Connection(m.number, m.src_number, m.node_number, 1)),
            Connection(m.dst_innovation, m.node_number, m.dst_number, old_weight)))

\* one mutation applied to a Dna; w is the weight drawn for a new connection
ApplyMutation(dna, m, w) ==
    IF m.kind = "WeightMutation"
    THEN [dna EXCEPT !.connections[m.connection].weight = m.weight]
    ELSE IF m.kind = "ConnectionMutation"
    THEN [dna EXCEPT !.connections =
              PutConnection(@, Connection(m.number, m.src_number, m.dst_number, w))]
    ELSE ApplyNodeMutation(dna, m, dna.connections[m.connection].weight)

\* Dna.update: the mutations applied in list order
RECURSIVE apply_mutations(_, _, _, _)
apply_mutations(dna, mutations, i, w) ==
    IF i > Len(mutations) THEN dna
    ELSE apply_mutations(ApplyMutation(dna, mutations[i], w), mutations, i + 1, w)

(* ----------------------------- base genome ----------------------------- *)

\* the ConnectionMutations of base_dna, numbered from 1
BaseMutations ==
    IF BASE_DNA = "CONNECTED"
    THEN [i \in 1..NumPairs |-> ConnectionMutation(i, PairSrc(i - 1), PairDst(i - 1))]
    ELSE <<>>

BasePut(dna, m, w) ==
    [dna EXCEPT !.connections =
        PutConnection(@, Connection(m.number, m.src_number, m.dst_number, w[m.number]))]

RECURSIVE BaseUpdate(_, _, _)
BaseUpdate(dna, i, w) ==
    IF i > Len(BaseMutations) THEN dna
    ELSE BaseUpdate(BasePut(dna, BaseMutations[i], w), i + 1, w)

\* Simulation.base_dna: Dna(nodes=base_nodes) connects its nodes itself
\* (connect_nodes, numbers from 0), then the mutations are applied;
\* w gives the weight of every connection
base_dna(w) == BaseUpdate(Dna(BaseNodes, connect_nodes(w)), 1, w)

BaseNumbers == 0..(IF BASE_DNA = "CONNECTED" THEN NumPairs ELSE NumPairs - 1)

(* ------------------------------- species ------------------------------- *)

\* the species map is insertion-ordered: a sequence of [rep, members]
SpeciesKeys(species) == {species[i].rep : i \in 1..Len(species)}

\* the index of the first representative whose distance to the creature is
\* below the threshold (0: none), scanning from i; "error" when a distance
\* cannot be computed
RECURSIVE FirstFit(_, _, _, _)
RECURSIVE FirstFitOf(_, _, _, _, _)
\* faulty variant of FirstFitOf: the scan goes on after a fit (no break), so
\* the last fitting representative wins
FirstFitOfNoBreak(species, creature, cr, i, d) ==
    IF d.kind \notin {"value", "nan"} THEN [error |-> d.kind, index |-> 0]
    ELSE IF BelowThreshold(d) /\ FirstFit(species, creature, cr, i + 1).index = 0
    THEN [error |-> "", index |-> i]
    ELSE FirstFit(species, creature, cr, i + 1)

FirstFitOf(species, creature, cr, i, d) ==
    IF d.kind \notin {"value", "nan"} THEN [error |-> d.kind, index |-> 0]
    ELSE IF BelowThreshold(d) THEN [error |-> "", index |-> i]
    ELSE FirstFit(species, creature, cr, i + 1)

FirstFit(species, creature, cr, i) ==
    IF i > Len(species) THEN [error |-> "", index |-> 0]
    ELSE FirstFitOf(species, creature, cr, i,
                    genetic_distance(cr[creature], cr[species[i].rep]))

CatalogueOf(species, creature, f) ==
    IF f.error # "" THEN [error |-> f.error, species |-> species]
    ELSE IF f.index # 0
    THEN [error |-> "",
          species |-> [species EXCEPT ![f.index].members = Append(@, creature)]]
    ELSE [error |-> "",
          species |-> Append(species, [rep |-> creature, members |-> <<creature>>])]

catalogue_creature(species, creature, cr) ==
    CatalogueOf(species, creature, FirstFit(species, creature, cr, 1))

\* the creatures in no member list
Uncatalogued(species, pop) ==
    pop \ UNION {SeqToSet(species[i].members) : i \in 1..Len(species)}

\* update_species: the uncatalogued creatures catalogued in any order; the
\* species maps that may result
RECURSIVE update_species(_, _, _)
update_species(species, uncatalogued, cr) ==
    IF uncatalogued = {} THEN {species}
    ELSE UNION {update_species(catalogue_creature(species, c, cr).species,
                               uncatalogued \ {c}, cr) : c \in uncatalogued}

\* get_species: the index of the first species listing the creature (0: none)
get_species(species, creature) ==
    FirstIndex({i \in 1..Len(species) : creature \in SeqToSet(species[i].members)})

RemoveAt(s, k) == [i \in 1..(Len(s) - 1) |-> IF i < k THEN s[i] ELSE s[i + 1]]

\* list.remove: the first occurrence of x removed
RemoveFirst(s, x) ==
    IF \E i \in 1..Len(s) : s[i] = x
    THEN RemoveAt(s, FirstIndex({i \in 1..Len(s) : s[i] = x}))
    ELSE s

(* ------------------------- births and parents -------------------------- *)

ParentsFail == [error |-> "IndexError", a |-> None, b |-> None]

\* parent_a drawn from a_members, parent_b from b_members without parent_a
ParentPairs(a_members, b_members) ==
    IF a_members = {} THEN {ParentsFail}
    ELSE UNION {IF b_members \ {pa} = {} THEN {ParentsFail}
                ELSE {[error |-> "", a |-> pa, b |-> pb] : pb \in b_members \ {pa}}
                : pa \in a_members}

\* get_parents: the [error, a, b] the random draws may give; choice of an
\* empty list raises IndexError
get_parents(species) ==
    IF species = <<>> THEN {ParentsFail}
    ELSE UNION {ParentPairs(SeqToSet(species[ia].members), SeqToSet(species[ia].members))
                \cup (IF Len(species) = 1 THEN {ParentsFail}
                      ELSE UNION {ParentPairs(SeqToSet(species[ia].members),
                                              SeqToSet(species[ib].members))
                                  : ib \in (1..Len(species)) \ {ia}})
                : ia \in 1..Len(species)}

\* the Dna a child starts from: a crossover of the parents or a copy of one
BirthDnaOf(x, parent_a, parent_b) ==
    IF x.error # "" THEN {[error |-> x.error, dna |-> parent_a.dna]}
    ELSE {[error |-> "", dna |-> d] : d \in x.children}

BirthDna(parent_a, parent_b) ==
    BirthDnaOf(crossover(parent_a, parent_b), parent_a, parent_b)
    \cup {[error |-> "", dna |-> parent_a.dna], [error |-> "", dna |-> parent_b.dna]}

\* a pass of the loop together with the enabled flag that the connection a
\* NodeMutation was drawn from had in the genome being mutated
DrawnStep(st, dna) ==
    [proposal |-> st.proposal, found |-> st.found, mutation |-> st.mutation,
     before |-> st.before, after |-> st.after,
     enabled |-> IF st.proposal.kind = "NodeMutation"
                 THEN dna.connections[st.proposal.connection].enabled
                 ELSE TRUE]

DrawnFrom(g, dna) ==
    [g EXCEPT !.steps = [i \in 1..Len(g.steps) |-> DrawnStep(g.steps[i], dna)]]

\* generate_mutations on a creature with ledger state led: the possible
\* [mutations, led, steps]
generate_mutations(creature, led) ==
    {DrawnFrom(ConfigureAll(ms, 1, led, <<>>), creature.dna) : ms \in mutate(creature)}

\* the weights a new connection may get: drawn only for a ConnectionMutation
NewWeights(mutations) ==
    IF \E i \in 1..Len(mutations) : mutations[i].kind = "ConnectionMutation"
    THEN Weights ELSE {0}

\* new_birth: the possible [error, child, led, steps]
new_birth(parent_a, parent_b, led) ==
    UNION {IF bd.error # ""
           THEN {[error |-> bd.error, child |-> Creature(bd.dna, 0), led |-> led,
                  steps |-> <<>>]}
           ELSE UNION {{[error |-> "",
                         child |-> Creature(apply_mutations(bd.dna, g.mutations, 1, w), 0),
                         led |-> g.led, steps |-> g.steps] : w \in NewWeights(g.mutations)}
                       : g \in generate_mutations(Creature(bd.dna, 0), led)}
           : bd \in BirthDna(parent_a, parent_b)}

(* ---------------------- births and shared objects --------------------- *)
\* crossover puts the parents' own Connection objects into the child's dict
\* (child_connections[number] = connection), deepcopy makes new ones; a
\* mutation that changes a gene in place changes the object, in every genome
\* that holds it.  Spec and SpecGeneration keep genomes by value; the
\* sharing is followed here, for one birth.

\* which parent's object each gene of a crossover child is
ChildOrigin(sources) ==
    [n \in {k \in DOMAIN sources : sources[k] # "skip"} |-> sources[n]]

\* a deep copy shares no object
NoOrigin == [n \in {} |-> "a"]

CrossoverObjects(cmp, parent_a, parent_b) ==
    IF cmp.error # ""
    THEN {[error |-> cmp.error, dna |-> parent_a.dna, origin |-> NoOrigin,
           crossed |-> TRUE]}
    ELSE {[error |-> "", dna |-> ChildDna(parent_a, parent_b, s),
           origin |-> ChildOrigin(s), crossed |-> TRUE]
          : s \in ChildGeneSourcesOf(cmp, parent_a, parent_b)}

\* the Dna a child starts from, with the origin of its Connection objects
BirthObjects(parent_a, parent_b) ==
    CrossoverObjects(compare_genomes(parent_a, parent_b), parent_a, parent_b)
    \cup {[error |-> "", dna |-> parent_a.dna, origin |-> NoOrigin, crossed |-> FALSE],
          [error |-> "", dna |-> parent_b.dna, origin |-> NoOrigin, crossed |-> FALSE]}

\* mutation m changes in place an object the child has from parent `from`
SharedObject(m, from, origin) ==
    /\ m.kind \in {"WeightMutation", "NodeMutation"}
    /\ m.connection \in DOMAIN origin
    /\ origin[m.connection] = from

\* the connections of parent `from` once the child's mutations are applied:
\* a WeightMutation sets the weight of the object, a NodeMutation disables it
RECURSIVE InPlace(_, _, _, _, _)
InPlace(connections, from, origin, mutations, i) ==
    IF i > Len(mutations) THEN connections
    ELSE InPlace(IF ~SharedObject(mutations[i], from, origin) THEN connections
                 ELSE IF mutations[i].kind = "WeightMutation"
                 THEN [connections EXCEPT ![mutations[i].connection].weight =
                                              mutations[i].weight]
                 ELSE [connections EXCEPT ![mutations[i].connection].enabled = FALSE],
                 from, origin, mutations, i + 1)

ParentAfter(parent, from, origin, mutations) ==
    [parent EXCEPT !.dna.connections = InPlace(@, from, origin, mutations, 1)]

\* new_birth with the parents as they are after it:
\* the possible [error, child, parent_a, parent_b, crossed, led, steps]
new_birth_objects(parent_a, parent_b, led) ==
    UNION {IF bo.error # ""
           THEN {[error |-> bo.error, child |-> Creature(bo.dna, 0),
                  parent_a |-> parent_a, parent_b |-> parent_b,
                  crossed |-> bo.crossed, led |-> led, steps |-> <<>>]}
           ELSE UNION {{[error |-> "",
                         child |-> Creature(apply_mutations(bo.dna, g.mutations, 1, w), 0),
                         parent_a |-> ParentAfter(parent_a, "a", bo.origin, g.mutations),
                         parent_b |-> ParentAfter(parent_b, "b", bo.origin, g.mutations),
                         crossed |-> bo.crossed,
                         led |-> g.led, steps |-> g.steps] : w \in NewWeights(g.mutations)}
                       : g \in generate_mutations(Creature(bo.dna, 0), led)}
           : bo \in BirthObjects(parent_a, parent_b)}

(* ------------------------------ input nodes ---------------------------- *)

\* BaseNode.__init__: inputs and output start as None
InputNode == [inputs |-> None, output |-> None]

\* InputNode.set_input: the value is taken only when no input is set; inputs
\* and output get the same value
set_input(nd, input_value) ==
    [inputs |-> IF nd.inputs = None THEN input_value ELSE nd.inputs,
     output |-> IF nd.inputs = None THEN input_value ELSE nd.inputs]

\* InputNode.reset_node
reset_node(nd) == [inputs |-> None, output |-> None]

\* InputNode.get_output: the output field as it is; no exception is raised
get_output(nd) == [error |-> "", output |-> nd.output]

\* the input nodes of one network, as constructed
InputNodes == [n \in InputIds |-> InputNode]

(* -------------------------------- state -------------------------------- *)

VARIABLES
    innovation_history,  \* the ledger: the innovations in the order minted
    connection_count,    \* next innovation number
    node_count,          \* next node id
    creatures,           \* creature id -> Creature, for every creature referenced
    population,          \* the ids of the living creatures
    species,             \* insertion-ordered map: sequence of [rep, members]
    dead_creatures,      \* creatures scheduled to die
    next_creature,       \* the id the next creature gets
    phase,               \* "update": creatures act; "kill": kill_creatures runs
    failure,             \* the exception that ended the run ("": none)
    steps,               \* the passes of the last generate_mutations loop
    resolved,            \* every innovation resolved so far: child, key, numbers
    result,              \* the last call of a static genome function
    node                 \* the input nodes of a network: number -> fields

vars == <<innovation_history, connection_count, node_count, creatures, population,
          species, dead_creatures, next_creature, phase, failure, steps, resolved,
          result, node>>

Ledger == [history |-> innovation_history, connection_count |-> connection_count,
           node_count |-> node_count]

NoResult == [call |-> "none"]

\* lines 53-56 of Simulation.__init__: the ledger of the base genome
InitLedger ==
    /\ innovation_history = BaseMutations
    /\ connection_count = Len(BaseMutations) + 1
    /\ node_count = Cardinality(BaseNodes) + 1

\* Simulation.__init__
Init ==
    /\ InitLedger
    /\ population = 1..POPULATION_SIZE
    /\ creatures \in [1..POPULATION_SIZE ->
                        {Creature(base_dna(w), 0) : w \in [BaseNumbers -> Weights]}]
    /\ species \in update_species(<<>>, population, creatures)
    /\ dead_creatures = {}
    /\ next_creature = POPULATION_SIZE + 1
    /\ phase = "update"
    /\ failure = ""
    /\ steps = <<>>
    /\ resolved = {}
    /\ node = InputNodes
    /\ result = NoResult

\* the creatures still referenced: the living and the representatives
Referenced(cr, pop, sp) ==
    [c \in (DOMAIN cr) \cap (pop \cup SpeciesKeys(sp)) |-> cr[c]]

\* update_creature_properties: the creature gains fitness by the distance it
\* moved and is scheduled to die when its age reaches MAX_AGE
UpdateCreatureProperties(c, gain, dies) ==
    /\ failure = "" /\ phase = "update"
    /\ next_creature <= MaxCreatures
    /\ c \in population
    /\ creatures[c].fitness + gain <= MaxFitness
    /\ creatures' = [creatures EXCEPT ![c].fitness = @ + gain]
    /\ dead_creatures' = IF dies THEN dead_creatures \cup {c} ELSE dead_creatures
    /\ UNCHANGED <<innovation_history, connection_count, node_count, population,
                   species, next_creature, phase, failure, steps, resolved,
                   result, node>>

\* kill_creatures, entry: the duplicates are dropped and the loop starts
KillCreatures ==
    /\ failure = "" /\ phase = "update"
    /\ next_creature <= MaxCreatures
    /\ phase' = "kill"
    /\ UNCHANGED <<innovation_history, connection_count, node_count, creatures,
                   population, species, dead_creatures, next_creature, failure,
                   steps, resolved, result, node>>

\* what the passes of one generate_mutations call handed to the child
Resolutions(child, passes) ==
    {[child |-> child, key |-> unique(passes[i].proposal),
      numbers |-> configurations(passes[i].mutation)] : i \in 1..Len(passes)}

LedgerUpdate(led) ==
    /\ innovation_history' = led.history
    /\ connection_count' = led.connection_count
    /\ node_count' = led.node_count

\* faulty variant of KillCreature: the dead creature stays in the member list
\* of its species
KillCreatureKeepMember(c, cr, pop, sp, k) ==
    /\ failure' = IF k = 0 THEN "Exception" ELSE ""
    /\ population' = pop \ {c}
    /\ species' = sp
    /\ creatures' = Referenced(cr, population', species')
    /\ dead_creatures' = dead_creatures \ {c}

\* faulty variant of KillCreature: the dead creature stays in the population
KillCreatureKeepPopulation(c, cr, pop, sp, k) ==
    /\ failure' = IF k = 0 THEN "Exception" ELSE ""
    /\ population' = pop
    /\ species' = IF k = 0 THEN sp ELSE [sp EXCEPT ![k].members = RemoveFirst(@, c)]
    /\ creatures' = Referenced(cr, population', species')
    /\ dead_creatures' = dead_creatures \ {c}

\* faulty variant of KillCreature: a species is dropped from the map when its
\* representative dies
KillCreatureDropKey(c, cr, pop, sp, k) ==
    /\ failure' = IF k = 0 THEN "Exception" ELSE ""
    /\ population' = pop \ {c}
    /\ species' = IF k = 0 THEN sp
                  ELSE SelectSeq([sp EXCEPT ![k].members = RemoveFirst(@, c)],
                                 LAMBDA e : e.rep # c)
    /\ creatures' = Referenced(cr, population', species')
    /\ dead_creatures' = dead_creatures \ {c}

\* lines 405-406: the dead creature leaves the population and the member
\* list of its species (index k; get_species raises when there is none)
KillCreature(c, cr, pop, sp, k) ==
    /\ failure' = IF k = 0 THEN "Exception" ELSE ""
    /\ population' = pop \ {c}
    /\ species' = IF k = 0 THEN sp ELSE [sp EXCEPT ![k].members = RemoveFirst(@, c)]
    /\ creatures' = Referenced(cr, population', species')
    /\ dead_creatures' = dead_creatures \ {c}

\* add_child, then the dead creature is removed; cat is the outcome of
\* catalogue_creature
AddChild(c, child, cr, cat) ==
    IF cat.error # ""
    THEN /\ failure' = cat.error
         /\ population' = population \cup {child}
         /\ creatures' = cr
         /\ UNCHANGED <<species, dead_creatures>>
    ELSE KillCreature(c, cr, population \cup {child}, cat.species,
                      get_species(cat.species, c))

WithChild(cr, child, creature) ==
    [i \in DOMAIN cr \cup {child} |-> IF i = child THEN creature ELSE cr[i]]

\* lines 402-406 of creature_death, nb being the outcome of new_birth
Birth(c, nb, child, cr) ==
    /\ nb.led.connection_count <= MaxConnectionCount
    /\ LedgerUpdate(nb.led)
    /\ steps' = nb.steps
    /\ resolved' = resolved \cup Resolutions(child, nb.steps)
    /\ next_creature' = next_creature + 1
    /\ IF nb.error # ""
       THEN /\ failure' = nb.error
            /\ UNCHANGED <<creatures, population, species, dead_creatures>>
       ELSE AddChild(c, child, cr, catalogue_creature(species, child, cr))
    /\ UNCHANGED <<phase, result, node>>

\* creature_death, the body of the loop of kill_creatures
CreatureDeath(c) ==
    /\ failure = "" /\ phase = "kill"
    /\ c \in dead_creatures
    /\ next_creature <= MaxCreatures
    /\ \E gp \in get_parents(species) :
          IF gp.error # ""
          THEN /\ failure' = gp.error
               /\ UNCHANGED <<innovation_history, connection_count, node_count,
                              creatures, population, species, dead_creatures,
                              next_creature, phase, steps, resolved, result,
                   node>>
          ELSE \E nb \in new_birth(creatures[gp.a], creatures[gp.b], Ledger) :
                  Birth(c, nb, next_creature,
                        WithChild(creatures, next_creature, nb.child))

\* kill_creatures, exit: the list of dead creatures is reset
KillCreaturesDone ==
    /\ failure = "" /\ phase = "kill"
    /\ dead_creatures = {}
    /\ phase' = "update"
    /\ UNCHANGED <<innovation_history, connection_count, node_count, creatures,
                   population, species, dead_creatures, next_creature, failure,
                   steps, resolved, result, node>>

Next ==
    \/ \E c \in population, gain \in 0..1, dies \in BOOLEAN :
          UpdateCreatureProperties(c, gain, dies)
    \/ KillCreatures
    \/ \E c \in dead_creatures : CreatureDeath(c)
    \/ KillCreaturesDone

Spec == Init /\ [][Next]_vars

(* ------------------- the static functions on genomes ------------------- *)

\* innovation number k joins the same nodes in every genome drawn: those of
\* the base genome, or the first input and a hidden node of its own
TestConnection(k, w) ==
    IF k = 0 THEN Connection(0, PairSrc(0), PairDst(0), w)
    ELSE IF k <= NumPairs THEN Connection(k, PairSrc(k - 1), PairDst(k - 1), w)
    ELSE Connection(k, PairSrc(0), CREATURE_INPUTS + CREATURE_OUTPUTS + k, w)

TestNumbers == 0..MaxTestNumber

TestDnas ==
    UNION {{ChildDnaOf([n \in S |-> TestConnection(n, w[n])]) : w \in [S -> TestWeights]}
           : S \in SUBSET TestNumbers}

\* crossover only compares the fitness of its two parents: two values give
\* every outcome of the comparison
TestFitness == {0, 1}

TestCreatures == {Creature(d, f) : d \in TestDnas, f \in TestFitness}

\* the variables the static functions do not touch
SimulationVars == <<innovation_history, connection_count, node_count, population,
                    species, dead_creatures, next_creature, phase, failure, steps,
                    resolved, node>>

\* creatures 1 and 2 are the arguments creature_a and creature_b
InitCompare ==
    /\ InitLedger
    /\ creatures \in [1..2 -> TestCreatures]
    /\ population = {}
    /\ species = <<>>
    /\ dead_creatures = {}
    /\ next_creature = 3
    /\ phase = "call"
    /\ failure = ""
    /\ steps = <<>>
    /\ resolved = {}
    /\ node = InputNodes
    /\ result = NoResult

\* Simulation.compare_genomes(creature_a, creature_b)
CompareGenomes ==
    /\ result = NoResult
    /\ result' = [call |-> "compare_genomes",
                  value |-> compare_genomes(creatures[1], creatures[2])]
    /\ UNCHANGED <<creatures, SimulationVars>>

\* Simulation.genetic_distance(creature_a, creature_b)
GeneticDistance ==
    /\ result = NoResult
    /\ result' = [call |-> "genetic_distance",
                  value |-> genetic_distance(creatures[1], creatures[2])]
    /\ UNCHANGED <<creatures, SimulationVars>>

CrossoverResults(x) ==
    IF x.error # "" THEN {[error |-> x.error, dna |-> Dna({}, EmptyConnections)]}
    ELSE {[error |-> "", dna |-> d] : d \in x.children}

\* Simulation.crossover(parent_a, parent_b)
Crossover ==
    /\ result = NoResult
    /\ \E r \in CrossoverResults(crossover(creatures[1], creatures[2])) :
          result' = [call |-> "crossover", value |-> r]
    /\ UNCHANGED <<creatures, SimulationVars>>

NextCompare == CompareGenomes \/ GeneticDistance \/ Crossover

SpecCompare == InitCompare /\ [][NextCompare]_vars

(* ------------------- speciation at construction ------------------------ *)

\* the creatures of initialize_child(): base genomes with weights drawn at
\* random; connection 0 is never aligned by compare_genomes, so its weight
\* is immaterial to the distance and kept at 0
SpeciesCreatures ==
    {Creature(base_dna(w), 0) : w \in {v \in [BaseNumbers -> TestWeights] : v[0] = 0}}

\* Simulation.__init__ up to line 62: a population of base genomes with
\* weights drawn at random, and no species yet
InitSpecies ==
    /\ InitLedger
    /\ population = 1..SpeciesPopulation
    /\ creatures \in [1..SpeciesPopulation -> SpeciesCreatures]
    /\ species = <<>>
    /\ dead_creatures = {}
    /\ next_creature = SpeciesPopulation + 1
    /\ phase = "update_species"
    /\ failure = ""
    /\ steps = <<>>
    /\ resolved = {}
    /\ node = InputNodes
    /\ result = NoResult

CatalogueResult(cat) ==
    /\ failure' = cat.error
    /\ species' = cat.species

\* one pass of the loop of update_species: an uncatalogued creature, drawn at
\* random, is catalogued
CatalogueCreature(c) ==
    /\ failure = "" /\ phase = "update_species"
    /\ c \in Uncatalogued(species, population)
    /\ CatalogueResult(catalogue_creature(species, c, creatures))
    /\ result' = [call |-> "catalogue_creature",
                  value |-> [creature |-> c, species |-> species]]
    /\ UNCHANGED <<innovation_history, connection_count, node_count, creatures,
                   population, dead_creatures, next_creature, phase, steps, resolved,
                   node>>

NextSpecies == \E c \in population : CatalogueCreature(c)

SpecSpecies == InitSpecies /\ [][NextSpecies]_vars

(* ---------------------------- new_generation --------------------------- *)

\* neat_parameters.py; BOTTOM_PERCENT is written in hundredths (0.33)
BOTTOM_PERCENT == 33
BIG_SPECIES == 1
NEW_CHILDREN == 0

\* the member c put into a list sorted by fitness, behind its equals
InsertByFitness(sorted, c, cr) ==
    LET k == Cardinality({i \in 1..Len(sorted) : cr[sorted[i]].fitness <= cr[c].fitness})
    IN  SubSeq(sorted, 1, k) \o <<c>> \o SubSeq(sorted, k + 1, Len(sorted))

\* sorted(species, key=lambda c: c.fitness): ascending and stable
RECURSIVE SortedByFitness(_, _)
SortedByFitness(members, cr) ==
    IF members = <<>> THEN <<>>
    ELSE InsertByFitness(SortedByFitness(SubSeq(members, 1, Len(members) - 1), cr),
                         members[Len(members)], cr)

\* int(len(species) * BOTTOM_PERCENT): the product truncated
CullCount(n) == (n * BOTTOM_PERCENT) \div 100

SurvivorsOf(sorted, cut) == SubSeq(sorted, cut + 1, Len(sorted))

\* lines 549-552: the species map with the bottom of every member list cut
Survivors(sp, cr) ==
    [i \in 1..Len(sp) |->
        [rep |-> sp[i].rep,
         members |-> SurvivorsOf(SortedByFitness(sp[i].members, cr),
                                 CullCount(Len(sp[i].members)))]]

\* numpy.random.choice(options, p=sum_one(levels)): sum_one divides by the
\* sum of the levels and the draw never takes an option of probability 0;
\* shared fitness is fitness / len(species), positive when the fitness is
WeightedChoice(options, cr) ==
    IF options = {} THEN [error |-> "ValueError", drawn |-> {}]
    ELSE IF \A c \in options : cr[c].fitness = 0
    THEN [error |-> "ZeroDivisionError", drawn |-> {}]
    ELSE [error |-> "", drawn |-> {c \in options : cr[c].fitness > 0}]

SlotFail(e) == [error |-> e, a |-> None, b |-> None]

\* lines 589-596: parent_b from the members without parent_a, or from all
\* members when no other is left
ParentBOf(members, parent_a, wc) ==
    IF wc.error # "" THEN {SlotFail(wc.error)}
    ELSE {[error |-> "", a |-> parent_a, b |-> pb] : pb \in wc.drawn}

ParentBOptions(members, parent_a) ==
    IF members \ {parent_a} = {} THEN members ELSE members \ {parent_a}

\* lines 579-596 for the species of index i: the parents one slot may get;
\* with inter-species mating numpy.random.choice is handed the survivors
\* dict itself and raises ValueError
SlotParentsOf(members, wa, cr) ==
    IF wa.error # "" THEN {SlotFail(wa.error)}
    ELSE {SlotFail("ValueError")}
         \cup UNION {ParentBOf(members, pa,
                               WeightedChoice(ParentBOptions(members, pa), cr))
                     : pa \in wa.drawn}

SlotParents(survivors, i, cr) ==
    SlotParentsOf(SeqToSet(survivors[i].members),
                  WeightedChoice(SeqToSet(survivors[i].members), cr), cr)

\* line 575: the test is made on new_species, the list just created
KeepsChampion(new_species) == Len(new_species) > BIG_SPECIES

\* max(species, key=lambda c: c.fitness): the first member of greatest fitness
Champion(members, cr) ==
    members[CHOOSE j \in 1..Len(members) :
                /\ \A k \in 1..Len(members) :
                      cr[members[k]].fitness <= cr[members[j]].fitness
                /\ \A k \in 1..(j - 1) :
                      cr[members[k]].fitness < cr[members[j]].fitness]

\* lines 574-577: the list a species starts with; no later line adds to it
\* or puts it into new_generation
NewSpeciesOf(new_species, members, cr) ==
    IF KeepsChampion(new_species) THEN Append(new_species, Champion(members, cr))
    ELSE new_species

NewSpecies(survivors, at, cr) ==
    IF at.index > Len(survivors) THEN <<>>
    ELSE NewSpeciesOf(<<>>, survivors[at.index].members, cr)

\* the children a species gets: range(len(species) + NEW_CHILDREN)
Slots(survivors, i) == Len(survivors[i].members) + NEW_CHILDREN

\* the next (species index, slot) with a slot left, from species i on
RECURSIVE NextSlot(_, _, _)
NextSlot(survivors, i, k) ==
    IF i > Len(survivors) THEN [index |-> i, slot |-> 0]
    ELSE IF k < Slots(survivors, i) THEN [index |-> i, slot |-> k]
    ELSE NextSlot(survivors, i + 1, 0)

\* the frame of a running new_generation call
GenerationFrame(survivors, new_generation, at, parents, returned, cr) ==
    [call |-> "new_generation",
     value |-> [survivors |-> survivors, new_generation |-> new_generation,
                new_species |-> NewSpecies(survivors, at, cr),
                index |-> at.index, slot |-> at.slot, parents |-> parents,
                returned |-> returned]]

\* the two genomes of the first population: their distance is not below the
\* threshold
GenerationDna(k) == base_dna([n \in BaseNumbers |-> IF k = 1 /\ n > 0 THEN MaxTestWeight ELSE 0])

\* n creatures, the first g carrying one genome and the others the second
GenerationCreatures(n, g) ==
    {cr \in [1..n -> {Creature(GenerationDna(k), f) : k \in 0..1, f \in 0..MaxFitness}] :
        \A c \in 1..n : cr[c].dna = GenerationDna(IF c <= g THEN 0 ELSE 1)}

\* Simulation(population_size=n): a population catalogued at construction
\* whose creatures have since gained fitness
InitGeneration ==
    /\ InitLedger
    /\ \E n \in 1..GenerationPopulation : \E g \in 1..n :
          /\ population = 1..n
          /\ creatures \in GenerationCreatures(n, g)
          /\ next_creature = n + 1
    /\ species \in update_species(<<>>, population, creatures)
    /\ dead_creatures = {}
    /\ phase = "generation"
    /\ failure = ""
    /\ steps = <<>>
    /\ resolved = {}
    /\ node = InputNodes
    /\ result = NoResult

\* new_generation, lines 549-570: the survivors and their fitness levels
Cull ==
    /\ failure = "" /\ phase = "generation" /\ result = NoResult
    /\ result' = GenerationFrame(Survivors(species, creatures), {},
                                 NextSlot(Survivors(species, creatures), 1, 0),
                                 SlotFail(""), FALSE, creatures)
    /\ UNCHANGED <<creatures, SimulationVars>>

\* the child of one slot, nb being the outcome of new_birth
SlotBirth(f, gp, nb, child) ==
    /\ nb.led.connection_count <= MaxConnectionCount
    /\ LedgerUpdate(nb.led)
    /\ steps' = nb.steps
    /\ resolved' = resolved \cup Resolutions(child, nb.steps)
    /\ next_creature' = next_creature + 1
    /\ failure' = nb.error
    /\ creatures' = IF nb.error # "" THEN creatures
                    ELSE WithChild(creatures, child, nb.child)
    /\ result' = IF nb.error # "" THEN result
                 ELSE GenerationFrame(f.survivors, f.new_generation \cup {child},
                                      NextSlot(f.survivors, f.index, f.slot + 1),
                                      gp, FALSE, creatures)
    /\ UNCHANGED <<population, species, dead_creatures, phase, node>>

\* one pass of the inner loop, lines 578-598
Slot ==
    /\ failure = "" /\ phase = "generation" /\ result # NoResult
    /\ result.value.index <= Len(result.value.survivors)
    /\ next_creature <= MaxCreatures
    /\ \E gp \in SlotParents(result.value.survivors, result.value.index, creatures) :
          IF gp.error # ""
          THEN /\ failure' = gp.error
               /\ UNCHANGED <<innovation_history, connection_count, node_count,
                              creatures, population, species, dead_creatures,
                              next_creature, phase, steps, resolved, result,
                   node>>
          ELSE \E nb \in new_birth(creatures[gp.a], creatures[gp.b], Ledger) :
                  SlotBirth(result.value, gp, nb, next_creature)

\* line 600: the children are returned; population and species are untouched
ReturnGeneration ==
    /\ failure = "" /\ phase = "generation" /\ result # NoResult
    /\ result.value.index > Len(result.value.survivors)
    /\ result' = [result EXCEPT !.value.returned = TRUE]
    /\ phase' = "returned"
    /\ UNCHANGED <<innovation_history, connection_count, node_count, creatures,
                   population, species, dead_creatures, next_creature, failure,
                   steps, resolved, node>>

NextGeneration == Cull \/ Slot \/ ReturnGeneration

SpecGeneration == InitGeneration /\ [][NextGeneration]_vars

(* ------------------------------ new_birth ------------------------------ *)

\* creatures 1 and 2 are the parents of the birth
InitBirth ==
    /\ InitLedger
    /\ creatures \in [1..2 -> TestCreatures]
    /\ population = {1, 2}
    /\ species = <<>>
    /\ dead_creatures = {}
    /\ next_creature = 3
    /\ phase = "call"
    /\ failure = ""
    /\ steps = <<>>
    /\ resolved = {}
    /\ node = InputNodes
    /\ result = NoResult

\* Simulation.new_birth((parent_a, parent_b)): the child is creature 3; the
\* parents are recorded as the birth leaves them
NewBirth ==
    /\ result = NoResult
    /\ \E nb \in new_birth_objects(creatures[1], creatures[2], Ledger) :
          /\ LedgerUpdate(nb.led)
          /\ steps' = nb.steps
          /\ failure' = nb.error
          /\ creatures' = IF nb.error # "" THEN creatures
                          ELSE <<nb.parent_a, nb.parent_b, nb.child>>
          /\ next_creature' = IF nb.error # "" THEN next_creature
                              ELSE next_creature + 1
          /\ result' = [call |-> "new_birth",
                        value |-> [error |-> nb.error, crossed |-> nb.crossed]]
    /\ UNCHANGED <<population, species, dead_creatures, phase, resolved, node>>

NextBirth == NewBirth

SpecBirth == InitBirth /\ [][NextBirth]_vars

(* ------------------------------ InputNode ------------------------------ *)

\* the values fed to an input node
InputValues == 0..MaxInput

InitNode ==
    /\ InitLedger
    /\ creatures = <<>>
    /\ population = {}
    /\ species = <<>>
    /\ dead_creatures = {}
    /\ next_creature = 1
    /\ phase = "call"
    /\ failure = ""
    /\ steps = <<>>
    /\ resolved = {}
    /\ node = InputNodes
    /\ result = NoResult

\* node.set_input(input_value)
SetInput(n, input_value) ==
    /\ node' = [node EXCEPT ![n] = set_input(@, input_value)]
    /\ result' = [call |-> "set_input",
                  value |-> [node |-> n, input_value |-> input_value]]
    /\ UNCHANGED <<innovation_history, connection_count, node_count, creatures,
                   population, species, dead_creatures, next_creature, phase,
                   failure, steps, resolved>>

\* node.reset_node()
ResetNode(n) ==
    /\ node' = [node EXCEPT ![n] = reset_node(@)]
    /\ result' = [call |-> "reset_node", value |-> [node |-> n]]
    /\ UNCHANGED <<innovation_history, connection_count, node_count, creatures,
                   population, species, dead_creatures, next_creature, phase,
                   failure, steps, resolved>>

\* node.get_output()
GetOutput(n) ==
    /\ result' = [call |-> "get_output",
                  value |-> [node |-> n, error |-> get_output(node[n]).error,
                             output |-> get_output(node[n]).output]]
    /\ UNCHANGED <<creatures, SimulationVars>>

NextNode ==
    \/ \E n \in InputIds, v \in InputValues : SetInput(n, v)
    \/ \E n \in InputIds : ResetNode(n)
    \/ \E n \in InputIds : GetOutput(n)

SpecNode == InitNode /\ [][NextNode]_vars

(* ============================ properties =============================== *)

(* ------------------------- the innovation ledger ----------------------- *)

\* the entries of a history carrying the identity key of the proposal
PastEntries(history, proposal) ==
    {j \in 1..Len(history) : unique(history[j]) = unique(proposal)}

KeyFound(st) == PastEntries(st.before.history, st.proposal) # {}

\* C1: in generate_mutations, a proposal whose identity key equals the key of
\* an entry already in the history is configured with that entry's innovation
\* number(s) and node id, and the history, connection_count and node_count
\* are left unchanged by the pass.
FoundKeyReusesEntry ==
    \A i \in 1..Len(steps) :
        KeyFound(steps[i]) =>
            /\ \A j \in PastEntries(steps[i].before.history, steps[i].proposal) :
                  configurations(steps[i].mutation)
                      = configurations(steps[i].before.history[j])
            /\ unique(steps[i].mutation) = unique(steps[i].proposal)
            /\ steps[i].after = steps[i].before

\* a node split whose key an earlier child put into the history was reused
FoundKeyReusesEntryWitness ==
    \E i \in 1..Len(steps) :
        /\ KeyFound(steps[i])
        /\ steps[i].proposal.kind = "NodeMutation"
        /\ steps[i].mutation.node_number # None
        /\ \E c \in population : steps[i].mutation.node_number \in creatures[c].dna.nodes

\* the numbers a minting pass hands out lie between the counters before and
\* after it, the counters grow, and the entry is appended
MintedFromCounters(st) ==
    /\ st.mutation.number = st.before.connection_count
    /\ st.after.connection_count > st.mutation.number
    /\ st.after.node_count >= st.before.node_count
    /\ st.proposal.kind = "NodeMutation" =>
          /\ st.mutation.node_number = st.before.node_count
          /\ st.after.node_count > st.mutation.node_number
          /\ st.mutation.dst_innovation > st.mutation.number
          /\ st.after.connection_count > st.mutation.dst_innovation
    /\ st.after.history = Append(st.before.history, st.mutation)

LedgerGrows ==
    /\ Len(innovation_history') >= Len(innovation_history)
    /\ SubSeq(innovation_history', 1, Len(innovation_history)) = innovation_history
    /\ connection_count' >= connection_count
    /\ node_count' >= node_count

\* C2: in generate_mutations, a proposal whose identity key matches no entry
\* of the history takes its innovation number(s) (and node id) from the
\* global counters, the counters only increase, exactly one entry is appended
\* and every earlier entry stays as it was: the ledger is append-only.
NewKeyMintsAndAppends ==
    [][/\ \A i \in 1..Len(steps') :
             ~KeyFound(steps'[i]) => MintedFromCounters(steps'[i])
       /\ LedgerGrows]_vars

\* one call minted a connection innovation and a node split
NewKeyMintsAndAppendsWitness ==
    /\ \E i \in 1..Len(steps) :
          ~KeyFound(steps[i]) /\ steps[i].proposal.kind = "ConnectionMutation"
    /\ \E i \in 1..Len(steps) :
          ~KeyFound(steps[i]) /\ steps[i].proposal.kind = "NodeMutation"
    /\ Len(innovation_history) = Len(steps[1].before.history) + 2

\* C3: innovation idempotence: two children that received the same structural
\* proposal (the same src/dst pair, or the same split connection), resolved
\* against the one ledger in either order, received identical innovation
\* numbers and, for a split, the identical new node id.
InnovationIdempotence ==
    \A p, q \in resolved : p.key = q.key => p.numbers = q.numbers

\* two living children both split the same connection: both carry the new
\* node and the two new connections, and the split connection is disabled
SplitIn(c, r) ==
    /\ c \in population
    /\ r.numbers[2] \in creatures[c].dna.nodes
    /\ {r.numbers[1], r.numbers[3]} \subseteq DOMAIN creatures[c].dna.connections
    /\ r.key[2] \in DOMAIN creatures[c].dna.connections
    /\ ~creatures[c].dna.connections[r.key[2]].enabled

InnovationIdempotenceWitness ==
    \E p, q \in resolved :
        /\ p.child # q.child /\ p.key = q.key
        /\ p.key[1] = "NodeMutation"
        /\ SplitIn(p.child, p) /\ SplitIn(q.child, q)

\* C4: any two connections anywhere in the population that join the same
\* (src, dst) pair carry the same innovation number, also when one was
\* created by a node split and the other by a connection mutation.  Stated
\* for the connections the ledger numbered (numbers from 1); connection 0 of
\* Dna.connect_nodes is left aside.
SamePairSameNumber ==
    \A x, y \in population :
        \A g \in DOMAIN creatures[x].dna.connections \ {0} :
            \A h \in DOMAIN creatures[y].dna.connections \ {0} :
                (/\ creatures[x].dna.connections[g].src_number
                      = creatures[y].dna.connections[h].src_number
                 /\ creatures[x].dna.connections[g].dst_number
                      = creatures[y].dna.connections[h].dst_number)
                => g = h

UniqueKeys(history) ==
    \A i, j \in 1..Len(history) : unique(history[i]) = unique(history[j]) => i = j

\* every pass starts from the ledger the pass before it left
ResolvedInOrder(passes, led, after) ==
    /\ passes = <<>> => after = led
    /\ passes # <<>> => passes[1].before = led /\ passes[Len(passes)].after = after
    /\ \A i \in 1..(Len(passes) - 1) : passes[i + 1].before = passes[i].after

\* C5: every proposal is resolved against the ledger as it stands at that
\* moment, including the entries minted earlier in the same generate_mutations
\* call or for an earlier child; so the history never holds two entries with
\* the same identity key.
CurrentLedgerResolves ==
    [][/\ UniqueKeys(innovation_history) /\ UniqueKeys(innovation_history')
       /\ next_creature' # next_creature => ResolvedInOrder(steps', Ledger, Ledger')]_vars

\* a key minted for an earlier child was found again, in a call that had
\* minted another entry just before
CurrentLedgerResolvesWitness ==
    /\ Len(steps) = 2
    /\ ~KeyFound(steps[1])
    /\ KeyFound(steps[2])
    /\ \A j \in PastEntries(steps[2].before.history, steps[2].proposal) :
          j > Len(BaseMutations)
    /\ UniqueKeys(innovation_history)

(* ---------------------- the static genome functions -------------------- *)

GenomeA == creatures[1].dna.connections
GenomeB == creatures[2].dna.connections

InList(n, list) == \E i \in 1..Len(list) : list[i] = n

\* the list the alignment rule names for innovation number n
ExpectedClass(n) ==
    IF n \in DOMAIN GenomeA /\ n \in DOMAIN GenomeB THEN "matching"
    ELSE IF n < Min2(SetMax(DOMAIN GenomeA), SetMax(DOMAIN GenomeB)) THEN "disjoint"
    ELSE "excess"

\* C6: compare_genomes(A, B) puts every innovation number of A or B into
\* exactly one of the three lists: matching when in both, disjoint when in
\* one only and below min(maxA, maxB), excess when in one only and at or
\* above it; no number of either genome, innovation number 0 included, is
\* left unclassified.
EveryGeneClassified ==
    (result.call = "compare_genomes" /\ result.value.error = "") =>
        \A n \in DOMAIN GenomeA \cup DOMAIN GenomeB :
            /\ InList(n, result.value.matching) <=> ExpectedClass(n) = "matching"
            /\ InList(n, result.value.disjoint) <=> ExpectedClass(n) = "disjoint"
            /\ InList(n, result.value.excess) <=> ExpectedClass(n) = "excess"

EmptyGenome == DOMAIN GenomeA = {} \/ DOMAIN GenomeB = {}

Failed(r) ==
    IF r.call = "genetic_distance" THEN r.value.kind \notin {"value", "nan"}
    ELSE r.value.error # ""

\* C7: compare_genomes, and with it genetic_distance and crossover, fails with
\* an error and without changing any state whenever either genome has no
\* connection; no result is returned for such a pair.
EmptyGenomeFails ==
    [][EmptyGenome =>
          /\ result'.call \in {"compare_genomes", "genetic_distance", "crossover"}
          /\ Failed(result')
          /\ UNCHANGED <<creatures, SimulationVars>>]_vars

\* crossover was called with a parent without connections, and failed
EmptyGenomeFailsWitness ==
    /\ result.call = "crossover"
    /\ DOMAIN GenomeA # {} /\ DOMAIN GenomeB = {}
    /\ result.value.error = "ValueError"

DistanceIdentity ==
    (result.call = "genetic_distance" /\ creatures[1] = creatures[2]
        /\ DOMAIN GenomeA # {}) =>
        result.value.kind = "value" /\ result.value.num = 0

(* ------------------------------ speciation ----------------------------- *)

\* the species whose representative is closer to c than the threshold
Fitting(c, sp) ==
    {i \in 1..Len(sp) :
        BelowThreshold(genetic_distance(creatures[c], creatures[sp[i].rep]))}

Catalogued(c) ==
    IF Fitting(c, species) = {}
    THEN species' = Append(species, [rep |-> c, members |-> <<c>>])
    ELSE /\ Len(species') = Len(species)
         /\ \A i \in 1..Len(species) :
               /\ species'[i].rep = species[i].rep
               /\ species'[i].members =
                     IF i \in Fitting(c, species)
                           /\ \A j \in Fitting(c, species) : i <= j
                     THEN Append(species[i].members, c)
                     ELSE species[i].members

\* C10: catalogue_creature adds the creature to the member list of the first
\* representative, in the iteration order of the species map, whose distance
\* to the creature is below DISTANCE_THRESHOLD, and to no other list; if none
\* qualifies the creature becomes the representative of a new species whose
\* only member is itself; the other member lists are unchanged.
FirstFittingSpecies ==
    [][\A c \in population :
          (c \in Uncatalogued(species, population)
              /\ c \notin Uncatalogued(species', population)) => Catalogued(c)]_vars

\* the creature catalogued last fitted two species and is a member of one
FirstFittingSpeciesWitness ==
    /\ result.call = "catalogue_creature"
    /\ Cardinality(Fitting(result.value.creature, result.value.species)) >= 2
    /\ get_species(species, result.value.creature)
          \in Fitting(result.value.creature, result.value.species)

(* ------------------------ species over generations --------------------- *)

\* the species, as the map stood before the birth, whose representative is
\* closer than the threshold to the creature just born
FittingBorn(c) ==
    {i \in 1..Len(species) :
        BelowThreshold(genetic_distance(creatures'[c], creatures'[species[i].rep]))}

BornInto(c) ==
    IF FittingBorn(c) = {}
    THEN /\ Len(species') = Len(species) + 1
         /\ species'[Len(species')].rep = c
    ELSE \E i \in FittingBorn(c) :
            /\ \A j \in FittingBorn(c) : i <= j
            /\ c \in SeqToSet(species'[i].members)

\* C11: a representative stays the key of its species, and new creatures keep
\* being compared against it, also after the representative itself has died
\* and left the population and the member list.
RepresentativePersists ==
    [][/\ Len(species') >= Len(species)
       /\ \A i \in 1..Len(species) :
             /\ species'[i].rep = species[i].rep
             /\ species[i].rep \in DOMAIN creatures'
             /\ creatures'[species[i].rep].dna = creatures[species[i].rep].dna
       /\ (next_creature' # next_creature /\ failure' = "")
             => BornInto(next_creature)]_vars

\* the second child was born into the species of a first-generation
\* representative that had died at the first death: the first child has died
\* since, and another creature of the first generation is still alive
RepresentativePersistsWitness ==
    \E i \in 1..Len(species) :
        /\ species[i].rep \in 1..POPULATION_SIZE
        /\ species[i].rep \notin population
        /\ species[i].rep \notin SeqToSet(species[i].members)
        /\ next_creature = POPULATION_SIZE + 3
        /\ next_creature - 1 \in SeqToSet(species[i].members)
        /\ POPULATION_SIZE + 1 \notin population
        /\ dead_creatures = {}

\* C12: a representative is retained only until its species has no member:
\* after a creature death has been processed the species map holds no species
\* with an empty member list, so no birth is classified into, and no parent
\* drawn from, a species that has died out.
NoEmptySpecies ==
    \A i \in 1..Len(species) : species[i].members # <<>>

(* ------------------------------ crossover ------------------------------ *)

Crossed == result.call = "crossover" /\ result.value.error = ""

ChildGenes == result.value.dna.connections

FitterGenes == IF creatures[1].fitness > creatures[2].fitness THEN GenomeA ELSE GenomeB

WeakerGenes == IF creatures[1].fitness > creatures[2].fitness THEN GenomeB ELSE GenomeA

\* C13: in crossover(A, B) with one parent strictly fitter, the child holds
\* every non-matching (disjoint or excess) gene of the fitter parent and no
\* non-matching gene of the other parent, in either order of the arguments.
FitterParentGenes ==
    (Crossed /\ creatures[1].fitness # creatures[2].fitness) =>
        /\ \A n \in DOMAIN FitterGenes \ DOMAIN WeakerGenes : n \in DOMAIN ChildGenes
        /\ \A n \in DOMAIN WeakerGenes \ DOMAIN FitterGenes : n \notin DOMAIN ChildGenes

\* the child's gene n is the gene n of the genome: same weight, src and dst
GeneFrom(n, genome) ==
    /\ n \in DOMAIN genome
    /\ ChildGenes[n].number = n
    /\ ChildGenes[n].weight = genome[n].weight
    /\ ChildGenes[n].src_number = genome[n].src_number
    /\ ChildGenes[n].dst_number = genome[n].dst_number

TracesToParent == \A n \in DOMAIN ChildGenes : GeneFrom(n, GenomeA) \/ GeneFrom(n, GenomeB)

\* C14: crossover gene coverage: every connection of the child of
\* crossover(A, B) carries an innovation number of A or B and is the gene of
\* one parent carrying that number, with that parent's weight, src and dst;
\* every matching gene appears in the child.
CrossoverGeneCoverage ==
    Crossed =>
        /\ TracesToParent
        /\ \A n \in DOMAIN GenomeA \cap DOMAIN GenomeB : n \in DOMAIN ChildGenes

(* ------------------------------- genomes ------------------------------- *)

HiddenIds(dna) == dna.nodes \ (InputIds \cup OutputIds)

\* C15: fixed arity: every genome in the population, from the base DNA, a
\* clone or a crossover, has exactly CREATURE_INPUTS Input nodes and
\* CREATURE_OUTPUTS Output nodes (the others being hidden nodes the ledger
\* numbered), and the endpoints of every connection are nodes of the genome.
FixedArity ==
    \A c \in population :
        /\ InputIds \subseteq creatures[c].dna.nodes
        /\ OutputIds \subseteq creatures[c].dna.nodes
        /\ \A h \in HiddenIds(creatures[c].dna) :
              h > CREATURE_INPUTS + CREATURE_OUTPUTS /\ h < node_count
        /\ \A n \in DOMAIN creatures[c].dna.connections :
              /\ creatures[c].dna.connections[n].src_number \in creatures[c].dna.nodes
              /\ creatures[c].dna.connections[n].dst_number \in creatures[c].dna.nodes

\* a living crossover child (connection 0 is lost in crossover only) that
\* inherited a hidden node and lost a connection of its split-carrying parent
FixedArityWitness ==
    \E c, d \in population :
        /\ 0 \notin DOMAIN creatures[c].dna.connections
        /\ HiddenIds(creatures[c].dna) # {}
        /\ HiddenIds(creatures[c].dna) = HiddenIds(creatures[d].dna)
        /\ \E n \in DOMAIN creatures[d].dna.connections \ {0} :
              n \notin DOMAIN creatures[c].dna.connections

(* --------------------------- generational selection -------------------- *)

InGeneration == result.call = "new_generation"

Removed(i) ==
    SeqToSet(species[i].members) \ SeqToSet(result.value.survivors[i].members)

\* C16: culling in new_generation removes from each species its lowest-fitness
\* members as given by the bottom percentage and never a member fitter than a
\* survivor; for two species of sizes 3 and 1 and a bottom percentage of 33%
\* it removes exactly 1 member of the species of 3 and none of the species
\* of 1.
CullsBottomPercent ==
    InGeneration =>
        /\ Len(result.value.survivors) = Len(species)
        /\ \A i \in 1..Len(species) :
              /\ SeqToSet(result.value.survivors[i].members)
                    \subseteq SeqToSet(species[i].members)
              /\ \A r \in Removed(i) :
                    \A k \in SeqToSet(result.value.survivors[i].members) :
                        creatures[r].fitness <= creatures[k].fitness
        /\ (BOTTOM_PERCENT = 33 /\ Len(species) = 2
              /\ {Len(species[1].members), Len(species[2].members)} = {1, 3}) =>
              \A i \in 1..2 :
                  Cardinality(Removed(i)) = IF Len(species[i].members) = 3 THEN 1 ELSE 0

Fittest(members) ==
    {c \in SeqToSet(members) :
        \A k \in SeqToSet(members) : creatures[k].fitness <= creatures[c].fitness}

Returned == InGeneration /\ result.value.returned

\* C17: for every species whose size is above BIG_SPECIES, the fittest member
\* of the species is present, unchanged, in the population that
\* new_generation returns.
ElitismKeepsChampion ==
    Returned =>
        \A i \in 1..Len(result.value.survivors) :
            Len(result.value.survivors[i].members) > BIG_SPECIES =>
                \E c \in Fittest(result.value.survivors[i].members) :
                    c \in result.value.new_generation

(* ----------------------------- parent choice --------------------------- *)

\* the pairs get_parents may return when both parents come from species i
SameSpeciesParents(i) ==
    ParentPairs(SeqToSet(species[i].members), SeqToSet(species[i].members))

\* C18: when the two parents of a child are chosen, the choice never fails
\* for lack of a candidate: parent B differs from parent A if the species of
\* B has another member, and B is A only when that species has a single
\* member.
ParentBHasCandidate ==
    (phase = "kill" /\ failure = "" /\ dead_creatures # {}) =>
        \A i \in 1..Len(species) :
            species[i].members # <<>> =>
                \A gp \in SameSpeciesParents(i) :
                    /\ gp.error = ""
                    /\ gp.a = gp.b => Len(species[i].members) = 1

(* ------------------------------ node splits ---------------------------- *)

\* C19: node_mutation only proposes to split an enabled connection: a
\* connection that an earlier split disabled in the genome is never chosen
\* again.
SplitsEnabledOnly ==
    \A i \in 1..Len(steps) :
        steps[i].proposal.kind = "NodeMutation" => steps[i].enabled

(* ------------------------------ input nodes ---------------------------- *)

\* C20: get_output of an InputNode returns the supplied value once set_input
\* has been called since the last reset; otherwise (at creation, or after
\* reset_node without a set_input) it fails with an Unset-Input error instead
\* of returning a value.
UnsetInputFails ==
    result.call = "get_output" =>
        IF node[result.value.node].inputs # None
        THEN /\ result.value.error = ""
             /\ result.value.output = node[result.value.node].inputs
        ELSE result.value.error = "UnsetInput"

(* -------------------------- population and species --------------------- *)

\* the positions (species, index) at which creature c is listed as a member
Memberships(c) ==
    {<<i, j>> \in (1..Len(species)) \X (1..MaxCreatures) :
        j <= Len(species[i].members) /\ species[i].members[j] = c}

\* C21: after initialisation and after any sequence of ticks with births and
\* deaths, every creature of the population is in the member list of exactly
\* one species, and every creature of a member list is in the population.
SpeciesPartitionPopulation ==
    /\ \A c \in population : Cardinality(Memberships(c)) = 1
    /\ \A i \in 1..Len(species) : SeqToSet(species[i].members) \subseteq population

\* two deaths and two births later, the two children are the population and
\* sit in different species
SpeciesPartitionPopulationWitness ==
    /\ failure = "" /\ phase = "update"
    /\ population = {POPULATION_SIZE + 1, POPULATION_SIZE + 2}
    /\ \E i, j \in 1..Len(species) :
          /\ i # j
          /\ species[i].members = <<POPULATION_SIZE + 1>>
          /\ species[j].members = <<POPULATION_SIZE + 2>>

\* C24: the population size is constant: after initialisation and after every
\* tick, whatever creatures reached MAX_AGE during it, the population holds
\* exactly population_size creatures, because kill_creatures replaces each
\* distinct dead creature by exactly one newborn child.
PopulationSizeConstant ==
    [][/\ Cardinality(population) = POPULATION_SIZE
       /\ Cardinality(population') = POPULATION_SIZE
       /\ (phase = "kill" /\ failure' = "" /\ dead_creatures' # dead_creatures) =>
             \E c \in dead_creatures \cap population :
                /\ dead_creatures' = dead_creatures \ {c}
                /\ next_creature \notin population
                /\ population' = (population \ {c}) \cup {next_creature}
                /\ next_creature' = next_creature + 1
       /\ (phase = "kill" /\ phase' = "update") => dead_creatures = {}]_vars

\* a tick in which both creatures of the first population reached MAX_AGE is
\* over: each was replaced by one child
PopulationSizeConstantWitness ==
    /\ failure = "" /\ phase = "update" /\ dead_creatures = {}
    /\ next_creature = POPULATION_SIZE + 3
    /\ population \cap (1..POPULATION_SIZE) = {}
    /\ Cardinality(population) = POPULATION_SIZE

(* ------------------------------ excess genes --------------------------- *)

\* gene n of `own` lies beyond the range of `other`
BeyondRange(n, own, other) ==
    /\ n \in DOMAIN own /\ n \notin DOMAIN other
    /\ SetMax(DOMAIN own) > SetMax(DOMAIN other)
    /\ n > SetMax(DOMAIN other)

\* C23: every gene that compare_genomes(A, B) reports as excess lies beyond
\* the other genome's range: it belongs to the genome with the larger highest
\* innovation number and its number is greater than the other genome's
\* highest innovation number; a gene of the genome with the smaller maximum
\* is never reported as excess.
ExcessBeyondRange ==
    (result.call = "compare_genomes" /\ result.value.error = "") =>
        \A i \in 1..Len(result.value.excess) :
            \/ BeyondRange(result.value.excess[i], GenomeA, GenomeB)
            \/ BeyondRange(result.value.excess[i], GenomeB, GenomeA)

(* --------------------------- frame of a birth -------------------------- *)

SameWeights(after, before) ==
    /\ DOMAIN after.dna.connections = DOMAIN before.dna.connections
    /\ \A n \in DOMAIN before.dna.connections :
          after.dna.connections[n].weight = before.dna.connections[n].weight

\* C22: applying a weight or bias mutation to a child produced by new_birth
\* changes only the child's genome: the genomes of both parents are the same
\* after the birth as before it, whether the child's DNA came from cloning
\* (deepcopy) or from crossover.
BirthLeavesParents ==
    [][result'.call = "new_birth" =>
          /\ SameWeights(creatures'[1], creatures[1])
          /\ SameWeights(creatures'[2], creatures[2])]_vars

====
